---- MODULE Spec2Model ----
(***************************************************************************)
(* Execution core of the `free` language: src/src/compile.rs, src/src/env.rs *)
(* The recursive tree walk (lower / compile / call) is modelled by          *)
(* operators that thread a machine state `st` and return a Result.          *)
(* The Value type, RETURN and STACK_PTR are imported from the crate root,   *)
(* which is outside src/; their operations follow the Value contract of     *)
(* spec.md section 3 and section 6.                                         *)
(* Spec is one thread driving the core operation by operation; SpecThreads *)
(* is two threads interleaving at the granularity of a guarded access, a   *)
(* Value operation or a STACK_PTR access.                                  *)
(***************************************************************************)
EXTENDS Integers, Sequences, FiniteSets, TLC

VARIABLES SCOPE_STACK, FN_DEFS, FOREIGN_FN_DEFS, STACK_PTR, mem, next,
          cap, epoch, growth, status, steps, last, trace, calls, thread

vars == <<SCOPE_STACK, FN_DEFS, FOREIGN_FN_DEFS, STACK_PTR, mem, next,
          cap, epoch, growth, status, steps, last, trace, calls, thread>>

\* Number of driver operations (registrations, statements, calls) in one run.
MaxSteps == 3

(***************************************************************************)
(* Value: a Copy handle on a storage cell.  mem[a] is the cell at address a *)
(* (its contents, its footprint, how many times it was freed).              *)
(***************************************************************************)
Val(a, r) == [addr |-> a, is_ref |-> r]

NoVal == Val(-1, FALSE)

\* The return register: one process-wide Value with its own storage.
RETURN == Val(0, FALSE)

Cell(d, sz) == [data |-> d, size |-> sz, frees |-> 0]

\* A fresh cell; allocation advances the stack pointer by the footprint.
Value_new(st, d, sz, r) ==
    [st  |-> [st EXCEPT !.mem  = [a \in 0..st.next |->
                                     IF a = st.next THEN Cell(d, sz) ELSE st.mem[a]],
                        !.next = st.next + 1,
                        !.sp   = st.sp + sz],
     val |-> Val(st.next, r)]

Value_byte_int(st, b) == Value_new(st, b, 1, FALSE)

Value_unsigned_4byte_int(st, ui) == Value_new(st, ui, 4, FALSE)

\* The contents of a cell holding the bytes s, as one number (first byte
\* least significant).
RECURSIVE Bytes(_)
Bytes(s) == IF s = <<>> THEN 0 ELSE Head(s) + 256 * Bytes(Tail(s))

\* string: the characters of s, one byte each.
Value_string(st, s) == Value_new(st, Bytes(s), Len(s), FALSE)

\* character: one byte holding the character's code.
Value_character(st, ch) == Value_new(st, ch, 1, FALSE)

Value_size(st, v) == st.mem[v.addr].size

Value_is_ref(v) == v.is_ref

\* copy: duplicate into independently owned storage.
Value_copy(st, v) == Value_new(st, st.mem[v.addr].data, st.mem[v.addr].size, v.is_ref)

\* zero: clear the contents without releasing the storage.
Value_zero(st, v) == [st EXCEPT !.mem[v.addr].data = 0]

\* free: release the storage.
Value_free(st, v) == [st EXCEPT !.mem[v.addr].frees = @ + 1]

\* assign: overwrite the target's contents from the source value.
Value_assign(st, target, src) ==
    [st EXCEPT !.mem[target.addr].data = st.mem[src.addr].data,
               !.mem[target.addr].size = st.mem[src.addr].size]

\* deref: read through a reference value.
Value_deref(st, v) == Val(st.mem[v.addr].data, FALSE)

(***************************************************************************)
(* Results.  kind is "Ok", "Err" (an Error value is returned) or "Panic"    *)
(* (the thread is aborted: index out of bounds, unwrap of Err, crash).      *)
(***************************************************************************)
NoEnv == [n \in {} |-> NoVal]

NoErr == [e |-> "none", name |-> "", env |-> NoEnv]

CannotReferenceAReference == [e |-> "CannotReferenceAReference", name |-> "", env |-> NoEnv]

FunctionNotDefined(name) == [e |-> "FunctionNotDefined", name |-> name, env |-> NoEnv]

VariableNotDefined(name, env) == [e |-> "VariableNotDefined", name |-> name, env |-> env]

Ok(st, v) == [st |-> st, kind |-> "Ok", val |-> v, err |-> NoErr]

Err(st, e) == [st |-> st, kind |-> "Err", val |-> NoVal, err |-> e]

Panic(st) == [st |-> st, kind |-> "Panic", val |-> NoVal, err |-> NoErr]

\* Instrumentation: the operation log of the current driver operation.
Event(ev, name, n, st) ==
    [ev |-> ev, name |-> name, n |-> n, depth |-> Len(st.scope_stack), cid |-> st.cur,
     held |-> st.held]

Log(st, ev, name, n) == [st EXCEPT !.trace = Append(@, Event(ev, name, n, st))]

\* Mutex::lock on one of the three statics.  std's Mutex is not reentrant: a
\* second lock by the thread that holds it never returns.
Lock(st, l) ==
    IF l \in st.held THEN Log([st EXCEPT !.blocked = TRUE], "relock", l, 0)
    ELSE Log([st EXCEPT !.held = @ \cup {l}], "lock", l, 0)

\* The guard is dropped.
Unlock(st, l) == Log([st EXCEPT !.held = @ \ {l}], "unlock", l, 0)

\* Err(e) at the place where the error value is constructed.
Raise(st, e) == Err(Log([st EXCEPT !.raised = Append(@, e)], "raise", e.name, 0), e)

(***************************************************************************)
(* AST (compile.rs:91-122, 138-271, 400-475)                                *)
(***************************************************************************)
Load(name) == [t |-> "Load", name |-> name]

\* A string is the sequence of its character codes, a character is its code.
String(s) == [t |-> "Literal", lit |-> "String", n |-> s]

Character(ch) == [t |-> "Literal", lit |-> "Character", n |-> ch]

ByteInt(b) == [t |-> "Literal", lit |-> "ByteInt", n |-> b]

Unsigned4ByteInt(ui) == [t |-> "Literal", lit |-> "Unsigned4ByteInt", n |-> ui]

Call(name, args) == [t |-> "Call", name |-> name, args |-> args]

Deref(e) == [t |-> "Deref", inner |-> e]

Refer(e) == [t |-> "Refer", inner |-> e]

EvalValue(v) == [t |-> "Value", value |-> v]

If(c, then, otherwise) == [t |-> "If", cond |-> c, then |-> then, otherwise |-> otherwise]

While(c, then) == [t |-> "While", cond |-> c, then |-> then]

ExprEval(e) == [t |-> "Eval", e |-> e]

Define(name, e) == [t |-> "Define", name |-> name, e |-> e]

Assign(lhs, rhs) == [t |-> "Assign", lhs |-> lhs, rhs |-> rhs]

Return(e) == [t |-> "Return", e |-> e]

UserFn(name, parameters, body) == [name |-> name, parameters |-> parameters, body |-> body]

ForeignFn(parameters, body) == [parameters |-> parameters, body |-> body]

(***************************************************************************)
(* Sequencing.  Only({ F(x) : x \in {E} }) evaluates E once, binds its      *)
(* value to x and yields F(x): the `let x = E; F(x)` of the source.         *)
(***************************************************************************)
Only(S) == CHOOSE x \in S : TRUE

\* refer: a reference-typed value pointing at v; fails if v is a reference.
Value_refer(st, v) ==
    IF v.is_ref THEN Raise(st, CannotReferenceAReference)
    ELSE Only({ Ok(Log(r.st, "refer", "", r.val.addr), r.val)
                : r \in {Value_new(st, v.addr, 1, TRUE)} })

(***************************************************************************)
(* Env (env.rs)                                                             *)
(***************************************************************************)
Env_new == NoEnv

Bind(scope, name, v) == [m \in DOMAIN scope \cup {name} |-> IF m = name THEN v ELSE scope[m]]

Env_get(scope, name) ==
    IF name \in DOMAIN scope
    THEN [kind |-> "Ok", val |-> scope[name], err |-> NoErr]
    ELSE [kind |-> "Err", val |-> NoVal, err |-> VariableNotDefined(name, scope)]

\* if let Ok(previous_value) = self.get(name) { previous_value.zero(); }
ZeroPrevious(st, scope, name) ==
    IF Env_get(scope, name).kind = "Ok"
    THEN Log(Value_zero(st, scope[name]), "zero_prev", name, scope[name].addr)
    ELSE st

\* Variant of Env_define that stores the caller's value itself (no copy).
Env_define_alias(st, scope, name, value) ==
    Only({ [st |-> s1, env |-> Bind(scope, name, value)]
           : s1 \in {ZeroPrevious(st, scope, name)} })

Env_define(st, scope, name, value) ==
    Only({ Only({ [st |-> c.st, env |-> Bind(scope, name, c.val)]
                  : c \in {Value_copy(s1, value)} })
           : s1 \in {ZeroPrevious(st, scope, name)} })

Env_define_no_cp(st, scope, name, value) ==
    Only({ [st |-> s1, env |-> Bind(scope, name, value)]
           : s1 \in {ZeroPrevious(st, scope, name)} })

\* if !value.is_ref() { value.free(); } else { println!("NOT FREEING ...") }
FreeOne(st, scope, n) ==
    IF ~Value_is_ref(scope[n])
    THEN Log(Value_free(st, scope[n]), "free", n, scope[n].addr)
    ELSE Log(st, "not_freeing", n, scope[n].addr)

RECURSIVE FreeAll(_, _, _)
FreeAll(st, scope, names) ==
    IF names = {} THEN st
    ELSE Only({ Only({ FreeAll(s1, scope, names \ {n}) : s1 \in {FreeOne(st, scope, n)} })
                : n \in {CHOOSE m \in names : TRUE} })

Env_free(st, scope) == FreeAll(st, scope, DOMAIN scope)

(***************************************************************************)
(* Scope stack (compile.rs:62-74).  SCOPE_STACK is a Vec<Env>: a push at    *)
(* full capacity moves the buffer, which is what `epoch` counts; raw        *)
(* pointers to an Env taken before the move dangle afterwards.              *)
(***************************************************************************)
Max(a, b) == IF a >= b THEN a ELSE b

\* Vec growth of the standard library in use: amortised doubling, with or
\* without a minimum non-zero capacity of four elements.
Grow(c) == IF growth = "min4" THEN Max(4, 2 * c) ELSE 2 * c

\* SCOPE_STACK.lock().unwrap().push(env);
push_scope(env, st) ==
    Only({ Unlock(Log([s1 EXCEPT !.scope_stack = Append(@, env),
                                 !.cap   = IF Len(st.scope_stack) = st.cap THEN Grow(@) ELSE @,
                                 !.epoch = IF Len(st.scope_stack) = st.cap THEN @ + 1 ELSE @],
                      "push", "", 0), "SCOPE_STACK")
           : s1 \in {Lock(st, "SCOPE_STACK")} })

\* Variant of pop_scope that removes the frame the calling thread pushed
\* (st.mine) instead of whatever frame is on top.
pop_scope_own(st) ==
    LET own == {i \in DOMAIN st.scope_stack : st.scope_stack[i] = st.mine}
        idx == IF own = {} THEN Len(st.scope_stack)
               ELSE CHOOSE i \in own : \A j \in own : j <= i
    IN  Only({ [st  |-> Unlock(Log([s1 EXCEPT !.scope_stack =
                                       SubSeq(@, 1, idx - 1) \o SubSeq(@, idx + 1, Len(@))],
                                   "pop", "", 0), "SCOPE_STACK"),
                env |-> st.scope_stack[idx]]
               : s1 \in {Lock(st, "SCOPE_STACK")} })

\* SCOPE_STACK.lock().unwrap().pop().unwrap()
pop_scope(st) ==
    Only({ [st  |-> Unlock(Log([s1 EXCEPT !.scope_stack = SubSeq(@, 1, Len(@) - 1)],
                               "pop", "", 0), "SCOPE_STACK"),
            env |-> st.scope_stack[Len(st.scope_stack)]]
           : s1 \in {Lock(st, "SCOPE_STACK")} })

\* Variant of get that searches every frame from the top down.
get_any_frame(name, st) ==
    LET hits == {i \in 1..Len(st.scope_stack) : name \in DOMAIN st.scope_stack[i]}
    IN  IF hits = {}
        THEN Err(st, VariableNotDefined(name, st.scope_stack[Len(st.scope_stack)]))
        ELSE Ok(st, st.scope_stack[CHOOSE i \in hits : \A j \in hits : j <= i][name])

\* The guard lives until get returns.
get(name, st) ==
    Only({ Only({ [r EXCEPT !.st = Unlock(@, "SCOPE_STACK")]
                  : r \in {IF g.kind = "Ok" THEN Ok(Log(Lock(st, "SCOPE_STACK"), "get", name, 0), g.val)
                           ELSE Raise(Log(Lock(st, "SCOPE_STACK"), "get", name, 0), g.err)} })
           : g \in {Env_get(st.scope_stack[Len(st.scope_stack)], name)} })

\* (*scope).define / (*scope).define_no_cp through the raw pointer `scope`
\* taken at index idx while the buffer generation was ep.  If the buffer has
\* moved since, the write goes through a dangling pointer: it may still land
\* in the live Env, be lost in the stale copy, or crash.
ScopeWrite(st, idx, ep, name, val, cp) ==
    Only({ IF st.epoch = ep
           THEN Ok([d.st EXCEPT !.scope_stack[idx] = d.env], NoVal)
           ELSE CASE st.ub = "applied" ->
                       Ok(Log([d.st EXCEPT !.scope_stack[idx] = d.env], "dangling", name, idx), NoVal)
                  [] st.ub = "lost" ->
                       Ok(Log(d.st, "dangling", name, idx), NoVal)
                  [] OTHER ->
                       Panic(Log(st, "dangling", name, idx))
           : d \in {IF cp THEN Env_define(st, st.scope_stack[idx], name, val)
                          ELSE Env_define_no_cp(st, st.scope_stack[idx], name, val)} })

RECURSIVE Lower(_, _), Compile(_, _), call(_, _, _)

TEMP_DEFINE == "%TEMP_DEFINE%"

\* let mut scope_stack = SCOPE_STACK.lock().unwrap();
\* let scope = scope_stack.last_mut().unwrap() as *mut Env;
\* drop(scope_stack);
TopPtr(st) ==
    Unlock(Log(Lock(st, "SCOPE_STACK"), "top_ptr", "", Len(st.scope_stack)), "SCOPE_STACK")

define_no_cp(final_name, value, st) ==
    Only({ IF l.kind # "Ok" THEN l
           ELSE Only({ IF w1.kind # "Ok" THEN w1
                       ELSE Only({ IF g.kind # "Ok" THEN g
                                   ELSE ScopeWrite(g.st, Len(g.st.scope_stack), g.st.epoch,
                                                   final_name, g.val, FALSE)
                                   : g \in {get(TEMP_DEFINE, TopPtr(w1.st))} })
                       : w1 \in {ScopeWrite(l.st, Len(st.scope_stack), st.epoch,
                                            TEMP_DEFINE, l.val, FALSE)} })
           : l \in {Lower(value, TopPtr(st))} })

\* Variant of Define_compile that keeps the guard until the value is stored.
Define_compile_guard_kept(d, st) ==
    Only({ IF l.kind # "Ok" THEN [l EXCEPT !.st = Unlock(@, "SCOPE_STACK")]
           ELSE Only({ [w EXCEPT !.st = Unlock(@, "SCOPE_STACK")]
                       : w \in {ScopeWrite(l.st, Len(st.scope_stack), st.epoch,
                                           d.name, l.val, TRUE)} })
           : l \in {Lower(d.e, Log(Lock(st, "SCOPE_STACK"), "top_ptr", "",
                                   Len(st.scope_stack)))} })

Define_compile(d, st) ==
    Only({ IF l.kind # "Ok" THEN l
           ELSE ScopeWrite(l.st, Len(st.scope_stack), st.epoch, d.name, l.val, TRUE)
           : l \in {Lower(d.e, TopPtr(st))} })

define(name, val, st) ==
    Only({ IF d1.kind # "Ok" THEN d1
           ELSE Define_compile(Define(name, Load(TEMP_DEFINE)), d1.st)
           : d1 \in {Define_compile(Define(TEMP_DEFINE, val), st)} })

(***************************************************************************)
(* Return protocol (compile.rs:76-89)                                       *)
(***************************************************************************)
set_return(val, st) ==
    Only({ Log(Value_assign(s1, RETURN, val), "set_return", "", val.addr)
           : s1 \in {Value_zero(st, RETURN)} })

TempReturnName(sp) == "%TEMP_RETURN" \o ToString(sp) \o "%"

get_return(st) ==
    Only({ Only({ IF d.kind # "Ok" THEN d ELSE get(name, d.st)
                  : d \in {define(name, EvalValue(RETURN), Log(st, "capture", name, st.sp))} })
           : name \in {TempReturnName(st.sp)} })

(***************************************************************************)
(* Lowering (compile.rs:101-112, 164-271)                                   *)
(***************************************************************************)
Call_lower(e, st) ==
    Only({ IF c.kind # "Ok" THEN c ELSE get_return(c.st)
           : c \in {call(e.name, e.args, st)} })

Deref_lower(e, st) ==
    Only({ IF l.kind # "Ok" THEN l ELSE Ok(l.st, Value_deref(l.st, l.val))
           : l \in {Lower(e.inner, st)} })

\* Variant of Refer_lower that yields the operand when refer fails.
Refer_lower_lenient(e, st) ==
    Only({ IF l.kind # "Ok" THEN l
           ELSE Only({ IF r.kind # "Ok" THEN Ok(l.st, l.val) ELSE r
                       : r \in {Value_refer(l.st, l.val)} })
           : l \in {Lower(e.inner, st)} })

\* Ok(var.lower()?.refer()?)
Refer_lower(e, st) ==
    Only({ IF l.kind # "Ok" THEN l ELSE Value_refer(l.st, l.val)
           : l \in {Lower(e.inner, st)} })

Load_lower(e, st) == get(e.name, st)

\* format!("%TEMP_.._LITERAL{}%", STACK_PTR), one prefix per variant.
TempLiteralName(lit, sp) ==
    CASE lit = "String"           -> "%TEMP_STR_LITERAL" \o ToString(sp) \o "%"
      [] lit = "Character"        -> "%TEMP_CHAR_LITERAL" \o ToString(sp) \o "%"
      [] lit = "ByteInt"          -> "%TEMP_BYTE_LITERAL" \o ToString(sp) \o "%"
      [] lit = "Unsigned4ByteInt" -> "%TEMP_U32_LITERAL" \o ToString(sp) \o "%"

\* The Value constructor of each variant.
LiteralValue(e, st) ==
    CASE e.lit = "String"           -> Value_string(st, e.n)
      [] e.lit = "Character"        -> Value_character(st, e.n)
      [] e.lit = "ByteInt"          -> Value_byte_int(st, e.n)
      [] e.lit = "Unsigned4ByteInt" -> Value_unsigned_4byte_int(st, e.n)

Literal_lower(e, st) ==
    Only({ Only({ Only({ IF d.kind # "Ok" THEN Panic(d.st) ELSE get(name, d.st)
                         : d \in {define_no_cp(name, EvalValue(v.val), v.st)} })
                  : v \in {LiteralValue(e, st)} })
           : name \in {TempLiteralName(e.lit, st.sp)} })

Lower(e, st) ==
    CASE e.t = "Load"    -> Load_lower(e, Log(st, "lower", e.t, 0))
      [] e.t = "Literal" -> Literal_lower(e, Log(st, "lower", e.t, 0))
      [] e.t = "Deref"   -> Deref_lower(e, Log(st, "lower", e.t, 0))
      [] e.t = "Call"    -> Call_lower(e, Log(st, "lower", e.t, 0))
      [] e.t = "Refer"   -> Refer_lower(e, Log(st, "lower", e.t, 0))
      [] e.t = "Value"   -> Ok(Log(st, "lower", e.t, 0), e.value)

(***************************************************************************)
(* Statements (compile.rs:124-153, 409-489)                                 *)
(***************************************************************************)
RECURSIVE CompileSeq(_, _, _)

\* Variant of CompileSeq that goes on with the next statement after a failure.
RECURSIVE CompileSeq_keep_going(_, _, _)
CompileSeq_keep_going(body, i, st) ==
    IF i > Len(body) THEN Ok(st, NoVal)
    ELSE Only({ IF r.kind = "Panic" THEN r ELSE CompileSeq_keep_going(body, i + 1, r.st)
                : r \in {Compile(body[i], Log(st, "stmt", body[i].t, i))} })

\* Variant of CompileSeq that leaves the body after a Return statement.
RECURSIVE CompileSeq_stop_at_return(_, _, _)
CompileSeq_stop_at_return(body, i, st) ==
    IF i > Len(body) THEN Ok(st, NoVal)
    ELSE Only({ IF r.kind # "Ok" \/ body[i].t = "Return" THEN r
                ELSE CompileSeq_stop_at_return(body, i + 1, r.st)
                : r \in {Compile(body[i], Log(st, "stmt", body[i].t, i))} })

\* for instruction in body { instruction.compile()?; }
CompileSeq(body, i, st) ==
    IF i > Len(body) THEN Ok(st, NoVal)
    ELSE Only({ IF r.kind # "Ok" THEN r ELSE CompileSeq(body, i + 1, r.st)
                : r \in {Compile(body[i], Log(st, "stmt", body[i].t, i))} })

Return_compile(s, st) ==
    Only({ IF l.kind # "Ok" THEN l ELSE Ok(set_return(l.val, l.st), NoVal)
           : l \in {Lower(s.e, st)} })

Assign_compile(s, st) ==
    Only({ IF l.kind # "Ok" THEN l
           ELSE Only({ IF r.kind # "Ok" THEN r
                       ELSE Ok(Log(Value_assign(r.st, l.val, r.val), "assign", "", l.val.addr), NoVal)
                       : r \in {Lower(s.rhs, l.st)} })
           : l \in {Lower(s.lhs, st)} })

\* Variant of If_compile that compiles otherwise when the condition is zero.
If_compile_with_else(s, st) ==
    Only({ IF c.kind # "Ok" THEN c
           ELSE Only({ IF b.kind # "Ok" THEN b ELSE Ok(Log(b.st, "if_end", "", 0), NoVal)
                       : b \in {CompileSeq(IF c.st.mem[c.val.addr].data # 0
                                           THEN s.then ELSE s.otherwise,
                                           1, Log(c.st, "if_begin", "", c.val.addr))} })
           : c \in {Lower(s.cond, st)} })

If_compile(s, st) ==
    Only({ IF c.kind # "Ok" THEN c
           ELSE Only({ IF b.kind # "Ok" THEN b ELSE Ok(Log(b.st, "if_end", "", 0), NoVal)
                       : b \in {CompileSeq(s.then, 1, Log(c.st, "if_begin", "", c.val.addr))} })
           : c \in {Lower(s.cond, st)} })

While_compile(s, st) ==
    Only({ IF c.kind # "Ok" THEN c
           ELSE Only({ IF b.kind # "Ok" THEN b ELSE Ok(Log(b.st, "while_end", "", 0), NoVal)
                       : b \in {CompileSeq(s.then, 1, Log(c.st, "while_begin", "", c.val.addr))} })
           : c \in {Lower(s.cond, st)} })

Eval_compile(s, st) ==
    Only({ IF l.kind # "Ok" THEN l ELSE Ok(l.st, NoVal)
           : l \in {Lower(s.e, st)} })

Compile(s, st) ==
    CASE s.t = "If"     -> If_compile(s, st)
      [] s.t = "Eval"   -> Eval_compile(s, st)
      [] s.t = "Define" -> Define_compile(s, st)
      [] s.t = "Assign" -> Assign_compile(s, st)
      [] s.t = "While"  -> While_compile(s, st)
      [] s.t = "Return" -> Return_compile(s, st)

(***************************************************************************)
(* Calls (compile.rs:305-358, 513-536)                                      *)
(***************************************************************************)
BindResult(st, kind, env, err) == [st |-> st, kind |-> kind, env |-> env, err |-> err]

RECURSIVE BindParams(_, _, _, _, _)

\* Variant of BindParams that also lowers the arguments beyond the parameters.
RECURSIVE BindParams_every_arg(_, _, _, _, _)
BindParams_every_arg(params, args, i, env, st) ==
    IF i > Len(params) /\ i > Len(args) THEN BindResult(st, "Ok", env, NoErr)
    ELSE IF i > Len(args) THEN BindResult(st, "Panic", env, NoErr)
    ELSE Only({ IF l.kind # "Ok" THEN BindResult(l.st, l.kind, env, l.err)
                ELSE IF i > Len(params) THEN BindParams_every_arg(params, args, i + 1, env, l.st)
                ELSE Only({ BindParams_every_arg(params, args, i + 1, d.env, d.st)
                            : d \in {Env_define(l.st, env, params[i], l.val)} })
                : l \in {Lower(args[i], Log(st, "lower_arg", "", i))} })

\* for (i, p) in parameters.iter().enumerate() { env.define(p, args[i].lower()?) }
BindParams(params, args, i, env, st) ==
    IF i > Len(params) THEN BindResult(st, "Ok", env, NoErr)
    ELSE IF i > Len(args) THEN BindResult(st, "Panic", env, NoErr)
    ELSE Only({ IF l.kind # "Ok" THEN BindResult(l.st, l.kind, env, l.err)
                ELSE Only({ BindParams(params, args, i + 1, d.env, d.st)
                            : d \in {Env_define(l.st, env, params[i], l.val)} })
                : l \in {Lower(args[i], Log(st, "lower_arg", "", i))} })

\* Instrumentation: one record per finished UserFn::call / ForeignFn::call.
Exit(st, kind, err, user, stack_frame, depth_in, env) ==
    [st   |-> [st EXCEPT !.calls = Append(@,
                  [cid |-> st.cur, user |-> user, kind |-> kind,
                   frame |-> stack_frame, sp_out |-> st.sp,
                   ret_size |-> Value_size(st, RETURN),
                   depth_in |-> depth_in, depth_out |-> Len(st.scope_stack),
                   env |-> env])],
     kind |-> kind, val |-> NoVal, err |-> err]

\* Variant of Teardown that leaves the stack pointer where the body left it.
Teardown_no_restore(st, stack_frame) ==
    Only({ [st |-> Log(Env_free(p.st, p.env), "sp_restore", "", st.sp), env |-> p.env]
           : p \in {pop_scope(st)} })

\* pop_scope().free(); STACK_PTR = stack_frame + RETURN.size();
Teardown(st, stack_frame) ==
    Only({ Only({ [st  |-> Log([s1 EXCEPT !.sp = stack_frame + Value_size(s1, RETURN)],
                               "sp_restore", "", stack_frame + Value_size(s1, RETURN)),
                   env |-> p.env]
                  : s1 \in {Env_free(p.st, p.env)} })
           : p \in {pop_scope(st)} })

\* Variant of UserFn_call that clears the return register on entry.
UserFn_call_reset_return(f, args, st) ==
    Only({ IF b.kind # "Ok"
           THEN Exit(b.st, b.kind, b.err, TRUE, st.sp, Len(st.scope_stack), NoEnv)
           ELSE Only({ IF r.kind # "Ok"
                       THEN Exit(r.st, r.kind, r.err, TRUE, st.sp, Len(st.scope_stack), NoEnv)
                       ELSE Only({ Exit(t.st, "Ok", NoErr, TRUE, st.sp, Len(st.scope_stack), t.env)
                                   : t \in {Teardown(r.st, st.sp)} })
                       : r \in {CompileSeq(f.body, 1, push_scope(b.env, b.st))} })
           : b \in {BindParams(f.parameters, args, 1, Env_new, Value_zero(st, RETURN))} })

UserFn_call(f, args, st) ==
    Only({ IF b.kind # "Ok"
           THEN Exit(b.st, b.kind, b.err, TRUE, st.sp, Len(st.scope_stack), NoEnv)
           ELSE Only({ IF r.kind # "Ok"
                       THEN Exit(r.st, r.kind, r.err, TRUE, st.sp, Len(st.scope_stack), NoEnv)
                       ELSE Only({ Exit(t.st, "Ok", NoErr, TRUE, st.sp, Len(st.scope_stack), t.env)
                                   : t \in {Teardown(r.st, st.sp)} })
                       : r \in {CompileSeq(f.body, 1, push_scope(b.env, b.st))} })
           : b \in {BindParams(f.parameters, args, 1, Env_new, st)} })

\* What a native callable does, as the statements it performs through the
\* public API (get, define, set_return, call).
NativeBody(id) ==
    CASE id = "native_seven" -> <<Return(ByteInt(7))>>
      [] id = "native_echo"  -> <<Return(Load("a"))>>
      [] id = "native_fail"  -> <<ExprEval(Load("nowhere"))>>
      [] OTHER               -> <<>>

ForeignFn_call(f, args, st) ==
    Only({ IF b.kind # "Ok"
           THEN Exit(b.st, b.kind, b.err, FALSE, st.sp, Len(st.scope_stack), NoEnv)
           ELSE Only({ IF r.kind # "Ok"
                       THEN Exit(r.st, r.kind, r.err, FALSE, st.sp, Len(st.scope_stack), NoEnv)
                       ELSE Only({ Exit(t.st, "Ok", NoErr, FALSE, st.sp, Len(st.scope_stack), t.env)
                                   : t \in {Teardown(r.st, st.sp)} })
                       : r \in {CompileSeq(NativeBody(f.body), 1, push_scope(b.env, b.st))} })
           : b \in {BindParams(f.parameters, args, 1, Env_new, st)} })

\* Variant of Dispatch that consults the foreign table first.
Dispatch_foreign_first(name) ==
    IF name \in DOMAIN FOREIGN_FN_DEFS THEN "foreign"
    ELSE IF name \in DOMAIN FN_DEFS THEN "user"
    ELSE "none"

\* The table lookups of call: FN_DEFS first, FOREIGN_FN_DEFS second.
Dispatch(name) ==
    IF name \in DOMAIN FN_DEFS THEN "user"
    ELSE IF name \in DOMAIN FOREIGN_FN_DEFS THEN "foreign"
    ELSE "none"

\* The table lookups of call with their guards: FN_DEFS is locked, searched
\* and released; on a miss the same is done with FOREIGN_FN_DEFS.
Lookup(name, st) ==
    CASE Dispatch(name) = "user" ->
           Unlock(Log(Lock(st, "FN_DEFS"), "lookup_user", name, 0), "FN_DEFS")
      [] Dispatch(name) = "foreign" ->
           Unlock(Log(Lock(Unlock(Log(Lock(st, "FN_DEFS"), "miss", name, 0), "FN_DEFS"),
                           "FOREIGN_FN_DEFS"), "lookup_foreign", name, 0), "FOREIGN_FN_DEFS")
      [] OTHER ->
           Log(Unlock(Log(Lock(Unlock(Log(Lock(st, "FN_DEFS"), "miss", name, 0), "FN_DEFS"),
                               "FOREIGN_FN_DEFS"), "miss", name, 0), "FOREIGN_FN_DEFS"),
               "lookup_none", name, 0)

\* Instrumentation: a fresh id for the call being started.
Enter(name, args, st) ==
    Log([st EXCEPT !.ncalls = st.ncalls + 1, !.cur = st.ncalls + 1], "call", name, Len(args))

\* Variant of call that lowers every argument before the tables are
\* consulted and hands the callee the lowered values.
RECURSIVE LowerAll(_, _, _, _)
LowerAll(args, i, vals, st) ==
    IF i > Len(args) THEN [st |-> st, kind |-> "Ok", vals |-> vals, err |-> NoErr]
    ELSE Only({ IF l.kind # "Ok" THEN [st |-> l.st, kind |-> l.kind, vals |-> vals, err |-> l.err]
                ELSE LowerAll(args, i + 1, Append(vals, EvalValue(l.val)), l.st)
                : l \in {Lower(args[i], Log(st, "lower_arg", "", i))} })

call_args_first(name, args, st) ==
    Only({ Only({ Only({ [r EXCEPT !.st.cur = st.cur]
                         : r \in {IF a.kind # "Ok"
                                  THEN [st |-> a.st, kind |-> a.kind, val |-> NoVal, err |-> a.err]
                                  ELSE CASE Dispatch(name) = "user" ->
                                         UserFn_call(FN_DEFS[name], a.vals, Lookup(name, a.st))
                                    [] Dispatch(name) = "foreign" ->
                                         ForeignFn_call(FOREIGN_FN_DEFS[name], a.vals,
                                                        Lookup(name, a.st))
                                    [] OTHER ->
                                         Raise(Lookup(name, a.st), FunctionNotDefined(name))} })
                  : a \in {LowerAll(args, 1, <<>>, s0)} })
           : s0 \in {Enter(name, args, st)} })

call(name, args, st) ==
    Only({ Only({ [r EXCEPT !.st.cur = st.cur]
                  : r \in {CASE Dispatch(name) = "user" ->
                                  UserFn_call(FN_DEFS[name], args, Lookup(name, s0))
                             [] Dispatch(name) = "foreign" ->
                                  ForeignFn_call(FOREIGN_FN_DEFS[name], args, Lookup(name, s0))
                             [] OTHER ->
                                  Raise(Lookup(name, s0), FunctionNotDefined(name))} })
           : s0 \in {Enter(name, args, st)} })

(***************************************************************************)
(* Registration (compile.rs:26-32, 273-278, 298-303)                        *)
(***************************************************************************)
\* Variant of UserFn_compile that keeps an earlier function of the same name.
UserFn_compile_keep_first(reg, fun) ==
    [defs |-> IF fun.name \in DOMAIN reg.defs THEN reg.defs ELSE Bind(reg.defs, fun.name, fun),
     st   |-> Unlock(Log(Lock(reg.st, "FN_DEFS"), "insert", fun.name, 0), "FN_DEFS")]

\* FN_DEFS.lock().unwrap().insert(self.name.clone(), self);
UserFn_compile(reg, fun) ==
    [defs |-> Bind(reg.defs, fun.name, fun),
     st   |-> Unlock(Log(Lock(reg.st, "FN_DEFS"), "insert", fun.name, 0), "FN_DEFS")]

RECURSIVE CompileFuns(_, _, _)
CompileFuns(reg, funs, i) ==
    IF i > Len(funs) THEN reg
    ELSE Only({ CompileFuns(r, funs, i + 1) : r \in {UserFn_compile(reg, funs[i])} })

\* FOREIGN_FN_DEFS.lock().unwrap().insert(name.to_string(), ForeignFn::new(..));
ForeignFn_define(reg, d) ==
    [defs |-> Bind(reg.defs, d.name, ForeignFn(d.parameters, d.body)),
     st   |-> Unlock(Log(Lock(reg.st, "FOREIGN_FN_DEFS"), "insert", d.name, 0),
                     "FOREIGN_FN_DEFS")]

(***************************************************************************)
(* Inputs: the programs, foreign functions and driver operations explored.  *)
(***************************************************************************)
Fn_f == UserFn("f", <<>>, <<Return(ByteInt(5))>>)

Fn_g == UserFn("g", <<"p">>, <<Assign(Load("p"), ByteInt(9)), Return(Load("p"))>>)

Fn_h == UserFn("h", <<>>, <<Define("t", ByteInt(3)), ExprEval(Load("x")), Return(Load("t"))>>)

Fn_k == UserFn("k", <<"a">>, <<Return(Load("a"))>>)

Fn_n == UserFn("n", <<>>, <<Define("z", Call("f", <<>>)),
                            Define("z", Call("k", <<Unsigned4ByteInt(70000)>>)),
                            Return(Load("z"))>>)

Fn_w == UserFn("w", <<"a", "b">>, <<Return(Load("b"))>>)

Fn_m == UserFn("m", <<>>, <<If(ByteInt(1),
                               <<ExprEval(Call("h", <<>>)), Define("t", ByteInt(2))>>,
                               <<Return(ByteInt(99))>>),
                            Return(ByteInt(6))>>)

\* Statements after a Return, among them a second Return.
Fn_r == UserFn("r", <<>>, <<Return(ByteInt(1)), Define("t", ByteInt(3)), Return(ByteInt(2))>>)

\* Two functions of the same name; the second one has no Return.
Fn_d1 == UserFn("d", <<>>, <<Return(ByteInt(1))>>)

Fn_d2 == UserFn("d", <<>>, <<Define("t", ByteInt(3))>>)

Programs == {<<Fn_f, Fn_g, Fn_h, Fn_k, Fn_n, Fn_w, Fn_m, Fn_r, Fn_d1, Fn_d2>>}

Foreigns == {[name |-> "f", parameters |-> <<>>, body |-> "native_seven"],
             [name |-> "e", parameters |-> <<"a">>, body |-> "native_echo"],
             [name |-> "x", parameters |-> <<>>, body |-> "native_fail"]}

\* Blocks of the If statements compiled in the global frame.
ThenBlock == <<Define("y", ByteInt(4)), Assign(Load("y"), ByteInt(6))>>

OtherwiseBlock == <<Define("o", ByteInt(9))>>

DriverStmts ==
    {If(Load("x"), ThenBlock, OtherwiseBlock),
     If(ByteInt(0), ThenBlock, OtherwiseBlock),
     Define("x", ByteInt(1)),
     Define("x", ByteInt(2)),
     Define("y", Call("f", <<>>)),
     Define("y", Call("n", <<>>)),
     Define("y", Load("x")),
     Define("x", Load("x")),
     ExprEval(Call("g", <<Load("x")>>)),
     ExprEval(Call("h", <<>>)),
     ExprEval(Call("m", <<>>)),
     ExprEval(Call("r", <<>>)),
     ExprEval(Call("d", <<>>)),
     ExprEval(Call("k", <<Refer(Load("x"))>>)),
     ExprEval(Refer(Refer(Load("x")))),
     ExprEval(Refer(Refer(Call("f", <<>>)))),
     ExprEval(Call("w", <<Call("f", <<>>), ByteInt(2)>>)),
     ExprEval(Call("w", <<String(<<97, 98>>), Character(99)>>))}

DriverCalls ==
    {Call("f", <<>>),
     Call("f", <<ByteInt(3), Call("k", <<ByteInt(4)>>)>>),
     Call("w", <<ByteInt(1)>>),
     Call("w", <<Load("x"), ByteInt(2)>>),
     Call("e", <<ByteInt(8)>>),
     Call("x", <<>>),
     Call("missing", <<ByteInt(3)>>)}

UBOutcomes == {"applied", "lost", "crash"}

(***************************************************************************)
(* The state machine: the driver registers functions, compiles statements   *)
(* in the global frame and issues calls; each action is one whole operation.*)
(***************************************************************************)
Machine(ub) ==
    [scope_stack |-> SCOPE_STACK, mem |-> mem, next |-> next, sp |-> STACK_PTR,
     cap |-> cap, epoch |-> epoch, ub |-> ub,
     trace |-> <<>>, calls |-> <<>>, cur |-> 0, ncalls |-> 0, raised |-> <<>>,
     held |-> {}, blocked |-> FALSE, mine |-> NoEnv]

Commit(r, op, stmt) ==
    /\ SCOPE_STACK' = r.st.scope_stack
    /\ mem' = r.st.mem
    /\ next' = r.st.next
    /\ STACK_PTR' = r.st.sp
    /\ cap' = r.st.cap
    /\ epoch' = r.st.epoch
    /\ trace' = r.st.trace
    /\ calls' = r.st.calls
    /\ status' = IF r.st.blocked THEN "deadlocked"
                 ELSE IF r.kind = "Panic" THEN "aborted" ELSE "running"
    /\ last' = [op |-> op, stmt |-> stmt, kind |-> r.kind, err |-> r.err,
                 raised |-> r.st.raised]
    /\ steps' = steps + 1

Nop == [t |-> "Nop"]

Init ==
    /\ SCOPE_STACK = <<Env_new>>
    /\ FN_DEFS = [n \in {} |-> Nop]
    /\ FOREIGN_FN_DEFS = [n \in {} |-> Nop]
    /\ STACK_PTR = 0
    /\ mem = [a \in 0..0 |-> Cell(0, 1)]
    /\ next = 1
    /\ cap = 1
    /\ epoch = 0
    /\ growth \in {"double", "min4"}
    /\ status = "running"
    /\ steps = 0
    /\ last = [op |-> "init", stmt |-> Nop, kind |-> "Ok", err |-> NoErr,
                       raised |-> <<>>]
    /\ trace = <<>>
    /\ calls = <<>>
    /\ thread = <<>>

Program_compile ==
    /\ status = "running" /\ steps < MaxSteps
    /\ \E funs \in Programs :
       \E r \in {CompileFuns([defs |-> FN_DEFS, st |-> Machine("applied")], funs, 1)} :
          /\ FN_DEFS' = r.defs
          /\ trace' = r.st.trace
          /\ status' = IF r.st.blocked THEN "deadlocked" ELSE "running"
          /\ last' = [op |-> "Program_compile", stmt |-> [t |-> "Program", funs |-> funs], kind |-> "Ok", err |-> NoErr,
                       raised |-> <<>>]
    /\ steps' = steps + 1
    /\ calls' = <<>>
    /\ UNCHANGED <<SCOPE_STACK, FOREIGN_FN_DEFS, STACK_PTR, mem, next, cap, epoch, growth, thread>>

deforfun ==
    /\ status = "running" /\ steps < MaxSteps
    /\ \E d \in Foreigns :
       \E r \in {ForeignFn_define([defs |-> FOREIGN_FN_DEFS, st |-> Machine("applied")], d)} :
          /\ FOREIGN_FN_DEFS' = r.defs
          /\ trace' = r.st.trace
          /\ status' = IF r.st.blocked THEN "deadlocked" ELSE "running"
          /\ last' = [op |-> "deforfun", stmt |-> Nop, kind |-> "Ok", err |-> NoErr,
                       raised |-> <<>>]
    /\ steps' = steps + 1
    /\ calls' = <<>>
    /\ UNCHANGED <<SCOPE_STACK, FN_DEFS, STACK_PTR, mem, next, cap, epoch, growth, thread>>

\* Whether the operation wrote through a dangling pointer; when it did not,
\* its result is the same under every outcome of UBOutcomes.
Dangled(r) == \E i \in DOMAIN r.st.trace : r.st.trace[i].ev = "dangling"

DriverCompile ==
    /\ status = "running" /\ steps < MaxSteps
    /\ \E s \in DriverStmts :
          \E r0 \in {Compile(s, Machine("applied"))} :
             \E r \in IF Dangled(r0)
                       THEN {r0} \cup {Compile(s, Machine(ub)) : ub \in UBOutcomes \ {"applied"}}
                       ELSE {r0} :
                Commit(r, "compile", s)
    /\ UNCHANGED <<FN_DEFS, FOREIGN_FN_DEFS, growth, thread>>

DriverCall ==
    /\ status = "running" /\ steps < MaxSteps
    /\ \E c \in DriverCalls :
          \E r0 \in {call(c.name, c.args, Machine("applied"))} :
             \E r \in IF Dangled(r0)
                       THEN {r0} \cup {call(c.name, c.args, Machine(ub))
                                       : ub \in UBOutcomes \ {"applied"}}
                       ELSE {r0} :
                Commit(r, "call", c)
    /\ UNCHANGED <<FN_DEFS, FOREIGN_FN_DEFS, growth, thread>>

Next == Program_compile \/ deforfun \/ DriverCompile \/ DriverCall

Spec == Init /\ [][Next]_vars

(***************************************************************************)
(* Two threads, each running one call against the same statics.  A step is  *)
(* what one thread does under one guard, one operation on a Value (zero,    *)
(* assign, copy, free, size), or one read or write of STACK_PTR; the        *)
(* unguarded accesses race, and the interleavings explored are among the    *)
(* outcomes the race can produce.                                           *)
(* The calls pass variables of the global frame to functions whose bodies   *)
(* are Return(Load(_)) statements.                                          *)
(***************************************************************************)
ThreadCalls == <<Call("k", <<Load("x")>>), Call("w", <<Load("x"), Load("x")>>)>>

Threads == DOMAIN ThreadCalls

\* The process before any operation.
Machine0 ==
    [scope_stack |-> <<Env_new>>, mem |-> [a \in 0..0 |-> Cell(0, 1)], next |-> 1, sp |-> 0,
     cap |-> 1, epoch |-> 0, ub |-> "applied",
     trace |-> <<>>, calls |-> <<>>, cur |-> 0, ncalls |-> 0, raised |-> <<>>,
     held |-> {}, blocked |-> FALSE, mine |-> NoEnv]

\* The process once the driver has compiled Define(x, 1) in the global frame.
Prepared == Compile(Define("x", ByteInt(1)), Machine0).st

Callee(t) == FN_DEFS[ThreadCalls[t].name]

CommitThread(st) ==
    /\ SCOPE_STACK' = st.scope_stack
    /\ mem' = st.mem
    /\ next' = st.next
    /\ STACK_PTR' = st.sp
    /\ cap' = st.cap
    /\ epoch' = st.epoch
    /\ trace' = st.trace
    /\ UNCHANGED <<FN_DEFS, FOREIGN_FN_DEFS, growth, status, steps, last, calls>>

InitThreads ==
    /\ SCOPE_STACK = Prepared.scope_stack
    /\ FN_DEFS = CompileFuns([defs |-> [n \in {} |-> Nop], st |-> Machine0],
                             CHOOSE funs \in Programs : TRUE, 1).defs
    /\ FOREIGN_FN_DEFS = [n \in {} |-> Nop]
    /\ STACK_PTR = Prepared.sp
    /\ mem = Prepared.mem
    /\ next = Prepared.next
    /\ cap = Prepared.cap
    /\ epoch = Prepared.epoch
    /\ growth \in {"double", "min4"}
    /\ status = "running"
    /\ steps = 0
    /\ last = [op |-> "init", stmt |-> Nop, kind |-> "Ok", err |-> NoErr, raised |-> <<>>]
    /\ trace = <<>>
    /\ calls = <<>>
    /\ thread = [t \in Threads |->
                    [at |-> "start", i |-> 0, env |-> Env_new, val |-> NoVal, frame |-> 0,
                     popped |-> NoEnv, todo |-> {}, size |-> 0, err |-> NoErr]]

\* call: FN_DEFS is locked, searched and released (drop(table)).
ThreadLookup(t) ==
    /\ thread[t].at = "start"
    /\ Dispatch(ThreadCalls[t].name) = "user"
    /\ \E s \in {Lookup(ThreadCalls[t].name, Machine("applied"))} :
          /\ CommitThread(s)
          /\ thread' = [thread EXCEPT ![t].at = "frame"]

\* UserFn::call: stack_frame = STACK_PTR (an unguarded read); Env::new().
ThreadFrame(t) ==
    /\ thread[t].at = "frame"
    /\ CommitThread(Machine("applied"))
    /\ thread' = [thread EXCEPT ![t].at = IF Len(Callee(t).parameters) >= 1 THEN "arg" ELSE "push",
                                ![t].i = 1,
                                ![t].env = Env_new,
                                ![t].frame = STACK_PTR]

\* args[i].lower()?
ThreadArg(t) ==
    /\ thread[t].at = "arg"
    /\ \E r \in {Lower(ThreadCalls[t].args[thread[t].i], Machine("applied"))} :
          /\ CommitThread(r.st)
          /\ thread' = IF r.kind = "Ok"
                        THEN [thread EXCEPT ![t].at = "bind", ![t].val = r.val]
                        ELSE [thread EXCEPT ![t].at = "failed", ![t].err = r.err]

\* env.define(p.to_string(), <lowered argument>)
ThreadBind(t) ==
    /\ thread[t].at = "bind"
    /\ \E d \in {Env_define(Machine("applied"), thread[t].env,
                              Callee(t).parameters[thread[t].i], thread[t].val)} :
          /\ CommitThread(d.st)
          /\ thread' = [thread EXCEPT ![t].env = d.env,
                                      ![t].i = @ + 1,
                                      ![t].at = IF thread[t].i + 1 > Len(Callee(t).parameters)
                                                THEN "push" ELSE "arg"]

\* push_scope(env)
ThreadPush(t) ==
    /\ thread[t].at = "push"
    /\ \E s \in {push_scope(thread[t].env, Machine("applied"))} :
          /\ CommitThread(s)
          /\ thread' = [thread EXCEPT ![t].i = 1,
                                      ![t].at = IF Len(Callee(t).body) >= 1 THEN "body" ELSE "pop"]

\* Return::compile: val.lower()?
ThreadLoad(t) ==
    /\ thread[t].at = "body"
    /\ Callee(t).body[thread[t].i].t = "Return"
    /\ \E r \in {Lower(Callee(t).body[thread[t].i].e, Machine("applied"))} :
          /\ CommitThread(r.st)
          /\ thread' = IF r.kind = "Ok"
                        THEN [thread EXCEPT ![t].at = "ret", ![t].val = r.val]
                        ELSE [thread EXCEPT ![t].at = "failed", ![t].err = r.err]

\* set_return: RETURN.zero();
ThreadZero(t) ==
    /\ thread[t].at = "ret"
    /\ CommitThread(Log(Value_zero(Machine("applied"), RETURN), "zero_return", "", 0))
    /\ thread' = [thread EXCEPT ![t].at = "assign"]

\* set_return: RETURN.assign(val).unwrap();
ThreadAssign(t) ==
    /\ thread[t].at = "assign"
    /\ CommitThread(Log(Value_assign(Machine("applied"), RETURN, thread[t].val),
                        "set_return", "", thread[t].val.addr))
    /\ thread' = [thread EXCEPT ![t].i = @ + 1,
                                ![t].at = IF thread[t].i + 1 > Len(Callee(t).body)
                                          THEN "pop" ELSE "body"]

\* pop_scope()
ThreadPop(t) ==
    /\ thread[t].at = "pop"
    /\ \E p \in {pop_scope([Machine("applied") EXCEPT !.mine = thread[t].env])} :
          /\ CommitThread(p.st)
          /\ thread' = [thread EXCEPT ![t].at = IF DOMAIN p.env = {} THEN "size" ELSE "free",
                                      ![t].popped = p.env,
                                      ![t].todo = DOMAIN p.env]

\* Env::free: one value of self.scope.values(), in the map's iteration order.
ThreadFreeValue(t) ==
    /\ thread[t].at = "free"
    /\ \E n \in thread[t].todo :
          /\ CommitThread(FreeOne(Machine("applied"), thread[t].popped, n))
          /\ thread' = [thread EXCEPT ![t].todo = @ \ {n},
                                      ![t].at = IF thread[t].todo = {n} THEN "size" ELSE "free"]

\* STACK_PTR = stack_frame + RETURN.size(): the read of RETURN.size().
ThreadSize(t) ==
    /\ thread[t].at = "size"
    /\ CommitThread(Machine("applied"))
    /\ thread' = [thread EXCEPT ![t].at = "restore",
                                ![t].size = Value_size(Machine("applied"), RETURN)]

\* STACK_PTR = stack_frame + RETURN.size(): the write of STACK_PTR.
ThreadRestore(t) ==
    /\ thread[t].at = "restore"
    /\ CommitThread(Log([Machine("applied") EXCEPT !.sp = thread[t].frame + thread[t].size],
                        "sp_restore", "", thread[t].frame + thread[t].size))
    /\ thread' = [thread EXCEPT ![t].at = "done"]

NextThreads ==
    \E t \in Threads :
        \/ ThreadLookup(t)
        \/ ThreadFrame(t)
        \/ ThreadArg(t)
        \/ ThreadBind(t)
        \/ ThreadPush(t)
        \/ ThreadLoad(t)
        \/ ThreadZero(t)
        \/ ThreadAssign(t)
        \/ ThreadPop(t)
        \/ ThreadFreeValue(t)
        \/ ThreadSize(t)
        \/ ThreadRestore(t)

SpecThreads == InitThreads /\ [][NextThreads]_vars

(***************************************************************************)
(* Properties                                                               *)
(***************************************************************************)
TopOf(ss) == ss[Len(ss)]

Top == TopOf(SCOPE_STACK)

Registered(name) == name \in DOMAIN FN_DEFS \cup DOMAIN FOREIGN_FN_DEFS

\* The outermost Call of a driver operation, if it has one.
HasTopCall(s) ==
    \/ s.t = "Call"
    \/ s.t \in {"Eval", "Define"} /\ s.e.t = "Call"

TopCall(s) == IF s.t = "Call" THEN s ELSE s.e

Events(ev) == {i \in DOMAIN trace : trace[i].ev = ev}

EventsOf(ev, cid) == {i \in DOMAIN trace : trace[i].ev = ev /\ trace[i].cid = cid}

\* C1: every call to a registered function, whether it returns Ok or an
\* Error, leaves the Scope Stack as deep as it was immediately before.
C1_DepthRestored ==
    \A i \in DOMAIN calls :
        calls[i].kind \in {"Ok", "Err"} => calls[i].depth_out = calls[i].depth_in

\* C2: at the teardown of a callee frame every non-reference binding of the
\* frame has had its storage freed exactly once (never twice, never zero
\* times), and no reference-valued binding has been freed.
C2_FreedExactlyOnce ==
    \A i \in DOMAIN calls :
        calls[i].kind = "Ok" =>
            \A n \in DOMAIN calls[i].env :
                LET v == calls[i].env[n]
                IN  IF v.is_ref THEN mem[v.addr].frees = 0 ELSE mem[v.addr].frees = 1

LoadArgNames(c) == {c.args[i].name : i \in {j \in DOMAIN c.args : c.args[j].t = "Load"}}

\* C3: a call that returns leaves every non-reference caller variable passed
\* as an argument bound to the same storage with the same contents as before
\* the call, also when the callee assigned to the parameter.
C3_ParametersBoundByCopy ==
    [][(last'.kind = "Ok" /\ HasTopCall(last'.stmt)) =>
          \A v \in LoadArgNames(TopCall(last'.stmt)) :
              (v \in DOMAIN Top /\ ~Top[v].is_ref) =>
                  /\ v \in DOMAIN TopOf(SCOPE_STACK')
                  /\ TopOf(SCOPE_STACK')[v] = Top[v]
                  /\ mem'[Top[v].addr] = mem[Top[v].addr]]_vars

\* C3 witness: g(x) returned, its body assigned 9 to the parameter and
\* returned it, and the caller's x still holds the value it was defined with.
C3_Witness ==
    /\ last.stmt = ExprEval(Call("g", <<Load("x")>>))
    /\ last.kind = "Ok"
    /\ Events("assign") # {}
    /\ mem[0].data = 9
    /\ "x" \in DOMAIN Top
    /\ mem[Top["x"].addr].data \in {1, 2}

\* C4: after Define(y, Call(f)) with f() { return 5 } has been executed, y is
\* bound in the caller's top frame to a value whose contents are 5.
C4_ReturnRoundTrip ==
    (/\ last.op = "compile"
     /\ last.stmt = Define("y", Call("f", <<>>))
     /\ "f" \in DOMAIN FN_DEFS
     /\ last.kind = "Ok")
        => /\ "y" \in DOMAIN Top
           /\ mem[Top["y"].addr].data = 5

\* C5: a call of a name present in both tables runs the user-defined
\* function and never the foreign one.
C5_UserShadowsForeign ==
    /\ \A i \in Events("call") :
          trace[i].name \in DOMAIN FN_DEFS \cap DOMAIN FOREIGN_FN_DEFS =>
              /\ EventsOf("lookup_user", trace[i].cid) # {}
              /\ EventsOf("lookup_foreign", trace[i].cid) = {}
              /\ \A j \in DOMAIN calls : calls[j].cid = trace[i].cid => calls[j].user
    /\ (/\ last.op = "call" /\ last.stmt = Call("f", <<>>)
        /\ "f" \in DOMAIN FN_DEFS \cap DOMAIN FOREIGN_FN_DEFS)
           => last.kind = "Ok" /\ mem[0].data = 5

\* C5 witness: f is registered in both tables, call("f") has returned and the
\* return register holds the user function's 5, not the foreign one's 7.
C5_Witness ==
    /\ "f" \in DOMAIN FN_DEFS \cap DOMAIN FOREIGN_FN_DEFS
    /\ last.op = "call" /\ last.stmt = Call("f", <<>>)
    /\ last.kind = "Ok"
    /\ mem[0].data = 5
    /\ Len(calls) = 1 /\ calls[1].user

\* C6: a call of a name absent from both tables returns
\* FunctionNotDefined(name) and changes neither the Scope Stack, the return
\* register, the stack pointer nor any storage (no argument is lowered).
C6_UnknownFunction ==
    [][(HasTopCall(last'.stmt) /\ ~Registered(TopCall(last'.stmt).name)) =>
          /\ last'.kind = "Err"
          /\ last'.err = FunctionNotDefined(TopCall(last'.stmt).name)
          /\ SCOPE_STACK' = SCOPE_STACK
          /\ mem' = mem
          /\ next' = next
          /\ STACK_PTR' = STACK_PTR
          /\ Events("lower_arg")' = {}
          /\ Events("push")' = {}]_vars

\* C6 witness: call("missing", [3]) has failed with FunctionNotDefined while
\* other functions are registered and the global frame holds bindings.
C6_Witness ==
    /\ last.op = "call" /\ last.stmt = Call("missing", <<ByteInt(3)>>)
    /\ last.kind = "Err" /\ last.err = FunctionNotDefined("missing")
    /\ DOMAIN FN_DEFS # {}
    /\ DOMAIN Top # {}

\* C7: Load(x) yields the binding of x in the top frame and fails with
\* VariableNotDefined(x, snapshot of the top frame) when x is not bound
\* there, also when x is bound in a frame below (h reads its caller's x).
C7_TopFrameOnly ==
    [][/\ (last'.op = "compile" /\ last'.stmt = Define("y", Load("x"))) =>
             IF "x" \in DOMAIN Top
             THEN /\ last'.kind = "Ok"
                  /\ "y" \in DOMAIN TopOf(SCOPE_STACK')
                  /\ mem'[TopOf(SCOPE_STACK')["y"].addr].data = mem[Top["x"].addr].data
             ELSE /\ last'.kind = "Err"
                  /\ last'.err = VariableNotDefined("x", Top)
                  /\ SCOPE_STACK' = SCOPE_STACK
       /\ (last'.stmt = ExprEval(Call("h", <<>>)) /\ "h" \in DOMAIN FN_DEFS) =>
             /\ last'.kind = "Err"
             /\ last'.err = VariableNotDefined("x", TopOf(SCOPE_STACK'))
             /\ Len(SCOPE_STACK') = Len(SCOPE_STACK) + 1]_vars

\* C7 witness: h has failed on Load(x) although x is bound in the frame below
\* the one h was running in.
C7_Witness ==
    /\ last.stmt = ExprEval(Call("h", <<>>))
    /\ last.kind = "Err" /\ last.err.e = "VariableNotDefined" /\ last.err.name = "x"
    /\ Len(SCOPE_STACK) >= 2
    /\ "x" \in DOMAIN SCOPE_STACK[Len(SCOPE_STACK) - 1]
    /\ "x" \notin DOMAIN Top

UserNames == {"x", "y", "z", "t", "p", "a", "b"}

\* C8: the storage of a value displaced by a rebinding has been released
\* exactly once, and distinct names of a frame hold distinct storage.
C8_RebindReleasesOnce ==
    /\ \A i \in Events("zero_prev") : mem[trace[i].n].frees = 1
    /\ \A d \in DOMAIN SCOPE_STACK :
          \A n1, n2 \in DOMAIN SCOPE_STACK[d] \cap UserNames :
              n1 # n2 => SCOPE_STACK[d][n1].addr # SCOPE_STACK[d][n2].addr

Params(name) ==
    IF name \in DOMAIN FN_DEFS THEN FN_DEFS[name].parameters
    ELSE FOREIGN_FN_DEFS[name].parameters

Min(a, b) == IF a <= b THEN a ELSE b

\* The argument indices lowered for call cid, in the order of the log.
LoweredArgs(cid) ==
    LET idx == EventsOf("lower_arg", cid)
    IN  [k \in 1..Cardinality(idx) |->
            trace[CHOOSE i \in idx : Cardinality({j \in idx : j <= i}) = k].n]

\* C9 as stated: for every Call, all its arguments are lowered once each,
\* left to right, in the caller's frame, before the callee is looked up.
C9_AllArgsBeforeDispatch ==
    \A i \in Events("call") :
        LET c == trace[i].cid
        IN  /\ LoweredArgs(c) = [k \in 1..trace[i].n |-> k]
            /\ \A j \in EventsOf("lower_arg", c) :
                  /\ trace[j].depth = trace[i].depth
                  /\ \A l \in EventsOf("lookup_user", c) \cup EventsOf("lookup_foreign", c)
                            \cup EventsOf("lookup_none", c) : j < l

\* C9 amended: for an unregistered callee no argument is lowered.  For a
\* registered callee the lookup comes first; the arguments lowered are then a
\* prefix 1..m of the argument list with m <= min(#parameters, #arguments),
\* once each, left to right, in the caller's frame, all before the callee's
\* frame is pushed or a body statement runs; the frame is pushed only once
\* one argument per parameter has been lowered, so arguments beyond the
\* parameters are never lowered; with fewer arguments than parameters no
\* frame is pushed and the call does not return Ok.
C9_ArgsLoweredPerParameter ==
    \A i \in Events("call") :
        LET c    == trace[i].cid
            name == trace[i].name
        IN  IF ~Registered(name)
            THEN EventsOf("lower_arg", c) = {} /\ EventsOf("push", c) = {}
            ELSE /\ \A j \in EventsOf("lower_arg", c) :
                       /\ trace[j].depth = trace[i].depth
                       /\ \E l \in EventsOf("lookup_user", c) \cup EventsOf("lookup_foreign", c) : l < j
                       /\ \A l \in EventsOf("push", c) \cup EventsOf("stmt", c) : j < l
                 /\ \E m \in 0..Min(Len(Params(name)), trace[i].n) :
                       LoweredArgs(c) = [k \in 1..m |-> k]
                 /\ EventsOf("push", c) # {} =>
                       /\ Len(Params(name)) <= trace[i].n
                       /\ LoweredArgs(c) = [k \in 1..Len(Params(name)) |-> k]
                 /\ trace[i].n < Len(Params(name)) =>
                       /\ EventsOf("push", c) = {}
                       /\ \A r \in DOMAIN calls : calls[r].cid = c => calls[r].kind # "Ok"

\* C9 witness: f() was called with two arguments, the second one itself a
\* call; f has run to completion and neither argument was lowered.
C9_Witness ==
    /\ last.op = "call" /\ last.stmt = Call("f", <<ByteInt(3), Call("k", <<ByteInt(4)>>)>>)
    /\ last.kind = "Ok"
    /\ Events("lower_arg") = {}
    /\ Cardinality(Events("call")) = 1
    /\ Events("push") # {}

\* C10: every successful call exits with the stack pointer at its entry value
\* plus the size of the return register, and when the caller captures the
\* register into %TEMP_RETURN<sp>% the callee's pop, frees and stack-pointer
\* restore are all behind it.
C10_StackPointerRestored ==
    /\ \A i \in DOMAIN calls :
          calls[i].kind = "Ok" => calls[i].sp_out = calls[i].frame + calls[i].ret_size
    /\ \A j \in Events("capture") :
          /\ j > 1
          /\ trace[j - 1].ev = "sp_restore"
          /\ trace[j].n = trace[j - 1].n
          /\ trace[j].name = TempReturnName(trace[j - 1].n)
          /\ trace[j].depth = trace[j - 1].depth
          /\ LET c == trace[j - 1].cid
             IN  /\ Cardinality(EventsOf("pop", c)) = 1
                 /\ Cardinality(EventsOf("push", c)) = 1
                 /\ \A i \in DOMAIN trace : trace[i].cid = c => i < j

\* C10 witness: n() has returned after two nested calls with return values of
\* different sizes, and its caller has captured the result.
C10_Witness ==
    /\ last.stmt = Define("y", Call("n", <<>>))
    /\ last.kind = "Ok"
    /\ Len(calls) = 3
    /\ \E i, j \in DOMAIN calls : calls[i].ret_size # calls[j].ret_size
    /\ \A i \in DOMAIN calls : calls[i].kind = "Ok" /\ calls[i].sp_out > calls[i].frame
    /\ Cardinality(Events("capture")) = 3

\* Events that show execution going on: a statement, an argument, a call, a
\* frame operation, a bracket end, a store.
ProgressEvents == {"stmt", "lower", "lower_arg", "call", "push", "pop", "set_return", "capture",
                   "if_begin", "if_end", "while_begin", "while_end", "assign", "free"}

\* C11: when an operation returns an Error, exactly one error was raised, the
\* Error returned by the outermost call is that error unchanged, and nothing
\* was executed after it was raised (no later statement of the failing body,
\* of a then/while block or of an enclosing body); an operation that returns
\* Ok raised no error.
C11_FirstErrorWins ==
    /\ last.kind = "Err" =>
          /\ Len(last.raised) = 1
          /\ last.err = last.raised[1]
          /\ Cardinality(Events("raise")) = 1
          /\ \A r \in Events("raise") :
                \A i \in DOMAIN trace : i > r => trace[i].ev \notin ProgressEvents
    /\ last.kind = "Ok" => last.raised = <<>> /\ Events("raise") = {}

\* C11 witness: m() failed two calls deep (inside h, called from a then block
\* of m): statements follow the failing one in h, in the then block and in m,
\* and the caller received h's VariableNotDefined(x).
C11_Witness ==
    /\ last.stmt = ExprEval(Call("m", <<>>))
    /\ last.kind = "Err"
    /\ last.err.e = "VariableNotDefined" /\ last.err.name = "x"
    /\ Len(calls) = 2
    /\ \A i \in DOMAIN calls : calls[i].kind = "Err"
    /\ Events("if_begin") # {} /\ Events("if_end") = {}
    /\ Len(SCOPE_STACK) >= 3

\* The last function of the program that is registered under name.
LastNamed(funs, name) ==
    funs[CHOOSE i \in DOMAIN funs :
            /\ funs[i].name = name
            /\ \A j \in DOMAIN funs : funs[j].name = name => j <= i]

\* C12: Program::compile returns Ok, leaves the user table holding, for each
\* name of the program, the last function of that name and every other entry
\* as it was, executes nothing, and changes neither the Scope Stack, the
\* return register, the stack pointer, the storage nor the foreign table.
C12_CompileOnlyRegisters ==
    [][last'.op = "Program_compile" =>
          LET funs  == last'.stmt.funs
              names == {funs[i].name : i \in DOMAIN funs}
          IN  /\ last'.kind = "Ok"
              /\ DOMAIN FN_DEFS' = DOMAIN FN_DEFS \cup names
              /\ \A n \in names : FN_DEFS'[n] = LastNamed(funs, n)
              /\ \A n \in DOMAIN FN_DEFS \ names : FN_DEFS'[n] = FN_DEFS[n]
              /\ \A i \in DOMAIN trace' : trace'[i].ev \in {"lock", "insert", "unlock"}
              /\ calls' = <<>>
              /\ SCOPE_STACK' = SCOPE_STACK
              /\ mem' = mem /\ next' = next
              /\ STACK_PTR' = STACK_PTR
              /\ FOREIGN_FN_DEFS' = FOREIGN_FN_DEFS]_vars

\* C12 witness: a program with two functions named d has been compiled while
\* the global frame held a binding and a foreign function was registered;
\* d is the second of the two.
C12_Witness ==
    /\ last.op = "Program_compile"
    /\ "d" \in DOMAIN FN_DEFS /\ FN_DEFS["d"] = Fn_d2 /\ Fn_d1 # Fn_d2
    /\ DOMAIN Top # {}
    /\ DOMAIN FOREIGN_FN_DEFS # {}
    /\ STACK_PTR > 0

ReferTwice(s) == s.t = "Eval" /\ s.e.t = "Refer" /\ s.e.inner.t = "Refer"

\* C13: lowering Refer(Refer(x)) never succeeds, and when x has lowered to a
\* non-reference value (the inner refer was granted) it fails with
\* CannotReferenceAReference, raised once by the outer refer and returned
\* unchanged.
C13_ReferenceNonNesting ==
    ReferTwice(last.stmt) =>
        /\ last.kind # "Ok"
        /\ Events("refer") # {} =>
              /\ last.kind = "Err"
              /\ last.err = CannotReferenceAReference
              /\ last.raised = <<CannotReferenceAReference>>
              /\ Cardinality(Events("refer")) = 1
              /\ \A i \in Events("refer"), r \in Events("raise") : i < r

\* C13 witness: Refer(Refer(f())) has failed with CannotReferenceAReference
\* after f() returned and the inner reference was taken.
C13_Witness ==
    /\ last.stmt = ExprEval(Refer(Refer(Call("f", <<>>))))
    /\ last.kind = "Err" /\ last.err = CannotReferenceAReference
    /\ Len(calls) = 1 /\ calls[1].kind = "Ok"
    /\ Events("refer") # {}

\* What is done between a lock and the drop of its guard.
AccessEvents == {"push", "pop", "get", "top_ptr", "lookup_user", "lookup_foreign", "miss",
                 "insert", "raise"}

\* Executing or lowering a statement, an argument, a sub-expression or a body.
ExecEvents == {"stmt", "lower", "lower_arg", "call", "capture", "set_return", "assign",
               "if_begin", "if_end", "while_begin", "while_end", "refer", "zero_prev",
               "free", "not_freeing", "sp_restore", "dangling", "lookup_none"}

\* C14: no thread ever locks a mutex it already holds; every lock is followed
\* by the drop of its guard after a single access (one lookup, insert, push,
\* pop or pointer fetch) with no other lock taken in between; and no lock is
\* held while a statement, an argument, a sub-expression or a body is being
\* executed or lowered.
C14_LockingDiscipline ==
    /\ status # "deadlocked"
    /\ \A i \in DOMAIN trace :
          /\ trace[i].ev # "relock"
          /\ trace[i].ev \in ExecEvents => trace[i].held = {}
          /\ trace[i].ev = "lock" =>
                /\ trace[i].held = {trace[i].name}
                /\ \E j \in (i + 2)..(i + 3) :
                      /\ j <= Len(trace)
                      /\ trace[j].ev = "unlock" /\ trace[j].name = trace[i].name
                      /\ trace[j].held = {}
                      /\ \A k \in (i + 1)..(j - 1) : trace[k].ev \in AccessEvents
                      /\ Cardinality({k \in (i + 1)..(j - 1) : trace[k].ev # "raise"}) = 1

\* C14 witness: n() has run to completion through two nested calls, taking
\* and releasing the Scope Stack lock and the registry lock at three depths.
C14_Witness ==
    /\ last.stmt = Define("y", Call("n", <<>>))
    /\ last.kind = "Ok"
    /\ Len(calls) = 3
    /\ \E i \in Events("lock") : trace[i].name = "SCOPE_STACK" /\ trace[i].depth = 3
    /\ \E i \in Events("lock") : trace[i].name = "FN_DEFS" /\ trace[i].depth = 2
    /\ Cardinality(Events("lock")) = Cardinality(Events("unlock"))
    /\ Cardinality(Events("lock")) >= 20

\* The "stmt" events at the log positions idx are the statements of body,
\* once each and in source order.
CompiledInOrder(idx, body) ==
    /\ Cardinality(idx) = Len(body)
    /\ \A i \in idx :
          /\ trace[i].n = 1 + Cardinality({j \in idx : j < i})
          /\ trace[i].name = body[trace[i].n].t

\* C15: a compiled If lowers its condition first and once, calls if_begin
\* with the lowered value, compiles the statements of then once each in
\* order and calls if_end last; no statement of otherwise is compiled,
\* whatever the condition's value (otherwise alone would bind o).
C15_IfCompilesThenOnly ==
    /\ \A d \in DOMAIN SCOPE_STACK : "o" \notin DOMAIN SCOPE_STACK[d]
    /\ (last.op = "compile" /\ last.stmt.t = "If" /\ last.kind = "Ok") =>
          /\ trace[1].ev = "lower" /\ trace[1].name = last.stmt.cond.t
          /\ Cardinality(Events("if_begin")) = 1
          /\ Cardinality(Events("if_end")) = 1
          /\ trace[Len(trace)].ev = "if_end"
          /\ \A b \in Events("if_begin") :
                /\ \A i \in Events("stmt") : b < i
                /\ last.stmt.cond.t = "Load" => trace[b].n = Top[last.stmt.cond.name].addr
                /\ last.stmt.cond.t = "Literal" => mem[trace[b].n].data = last.stmt.cond.n
                /\ Cardinality({i \in 1..b : trace[i].ev = "lower"
                                              /\ trace[i].name = last.stmt.cond.t}) = 1
          /\ CompiledInOrder(Events("stmt"), last.stmt.then)
          /\ "y" \in DOMAIN Top /\ mem[Top["y"].addr].data = 6

\* C15 witness: an If whose condition lowered to zero has been compiled: its
\* then block has run (y is 6) and its otherwise block has not.
C15_Witness ==
    /\ last.stmt = If(ByteInt(0), ThenBlock, OtherwiseBlock)
    /\ last.kind = "Ok"
    /\ \E b \in Events("if_begin") : mem[trace[b].n].data = 0
    /\ Cardinality(Events("stmt")) = 2
    /\ "y" \in DOMAIN Top /\ mem[Top["y"].addr].data = 6
    /\ "o" \notin DOMAIN Top

\* The log of a step that is one guarded access: lock first, unlock last.
Guarded(tr, l) ==
    /\ Len(tr) >= 3
    /\ tr[1].ev = "lock" /\ tr[1].name = l
    /\ tr[Len(tr)].ev = "unlock" /\ tr[Len(tr)].name = l
    /\ \A k \in 2..(Len(tr) - 1) : tr[k].ev \notin {"lock", "unlock", "relock"}

\* C16: with two threads calling concurrently, every push, pop and lookup is
\* a single step under the Scope Stack lock, and it acts on whatever frame is
\* on top of the shared stack at that moment, whichever thread pushed it: a
\* pop removes and returns the top frame, a lookup resolves the name in the
\* top frame and fails with a snapshot of that frame when the name is absent.
C16_AccessesActOnSharedTop ==
    [][\A t \in Threads :
          /\ (thread[t].at = "push" /\ thread'[t].at # "push") =>
                /\ SCOPE_STACK' = Append(SCOPE_STACK, thread[t].env)
                /\ Guarded(trace', "SCOPE_STACK")
          /\ (thread[t].at = "pop" /\ thread'[t].at # "pop") =>
                /\ thread'[t].popped = Top
                /\ SCOPE_STACK' = SubSeq(SCOPE_STACK, 1, Len(SCOPE_STACK) - 1)
                /\ Guarded(trace', "SCOPE_STACK")
          /\ (thread[t].at = "body" /\ thread'[t].at # "body") =>
                LET n == Callee(t).body[thread[t].i].e.name
                IN  /\ IF n \in DOMAIN Top
                       THEN thread'[t].at = "ret" /\ thread'[t].val = Top[n]
                       ELSE /\ thread'[t].at = "failed"
                            /\ thread'[t].err = VariableNotDefined(n, Top)
                    /\ SCOPE_STACK' = SCOPE_STACK
                    /\ \E j \in DOMAIN trace' :
                          /\ trace'[j].ev = "lock"
                          /\ Guarded(SubSeq(trace', j, Len(trace')), "SCOPE_STACK")]_vars

\* C16 witness: frame nesting is corrupted.  Thread 1 (running k) has popped
\* the frame pushed by thread 2 (running w), and thread 2's lookup of its own
\* parameter b was then resolved in thread 1's frame and failed.
C16_Witness ==
    /\ thread[1].env # thread[2].env
    /\ thread[1].at \in {"free", "size", "restore", "done"}
    /\ thread[1].popped = thread[2].env
    /\ thread[2].at = "failed"
    /\ thread[2].err = VariableNotDefined("b", thread[1].env)
    /\ "b" \in DOMAIN thread[2].env

\* C17: no literal lowering and no return capture rebinds a temporary that an
\* earlier literal lowering or return capture left in the same frame: the
\* only names ever rebound (and their previous value zeroed) are program
\* variables, parameters and the scratch name %TEMP_DEFINE%.
C17_TempNamesUnique ==
    \A i \in Events("zero_prev") : trace[i].name \in UserNames \cup {TEMP_DEFINE}

\* C18: Define(x, Load(x)) on a name bound to a non-reference value leaves x
\* bound to a value with the contents it had before the statement.
C18_SelfDefineKeepsValue ==
    [][(/\ last'.op = "compile" /\ last'.stmt = Define("x", Load("x"))
        /\ last'.kind = "Ok"
        /\ "x" \in DOMAIN Top /\ ~Top["x"].is_ref) =>
          /\ "x" \in DOMAIN TopOf(SCOPE_STACK')
          /\ mem'[TopOf(SCOPE_STACK')["x"].addr].data = mem[Top["x"].addr].data]_vars

CalleeName(cid) == trace[CHOOSE i \in Events("call") : trace[i].cid = cid].name

\* C19: every call of a user function that returns Ok has compiled all the
\* statements of the body once each in source order, those after a Return
\* included, and after r() { return 1; t = 3; return 2 } the return register
\* and the temporary the caller captured hold 2, the value of the last Return.
C19_ReturnDoesNotExit ==
    /\ \A i \in DOMAIN calls :
          (calls[i].kind = "Ok" /\ calls[i].user) =>
              LET body == FN_DEFS[CalleeName(calls[i].cid)].body
              IN  CompiledInOrder(EventsOf("stmt", calls[i].cid), body)
    /\ (last.stmt = ExprEval(Call("r", <<>>)) /\ last.kind = "Ok") =>
          /\ Cardinality(Events("set_return")) = 2
          /\ mem[0].data = 2
          /\ "t" \in DOMAIN calls[1].env
          /\ \A c \in Events("capture") :
                /\ trace[c].name \in DOMAIN Top
                /\ mem[Top[trace[c].name].addr].data = 2

\* C19 witness: r() has returned Ok; its body went on after the first Return,
\* bound t and executed the second Return, and the caller captured 2.
C19_Witness ==
    /\ last.stmt = ExprEval(Call("r", <<>>))
    /\ last.kind = "Ok"
    /\ \E i, j, k \in EventsOf("stmt", 1) :
          /\ i < j /\ j < k
          /\ trace[i].name = "Return" /\ trace[j].name = "Define" /\ trace[k].name = "Return"
          /\ \E e \in Events("set_return") : k < e
    /\ mem[0].data = 2
    /\ \E c \in Events("capture") : mem[Top[trace[c].name].addr].data = 2

\* C20: a call of d(), whose body executes no Return, leaves the return
\* register exactly as the most recent Return left it; the caller captures
\* that stale value as the result of d(), and d() exits with the stack
\* pointer at its entry value plus the stale value's size.
C20_StaleReturn ==
    [][(/\ last'.op = "compile" /\ last'.stmt = ExprEval(Call("d", <<>>))
        /\ last'.kind = "Ok") =>
          /\ Events("set_return")' = {}
          /\ mem'[0] = mem[0]
          /\ Len(calls') = 1
          /\ calls'[1].frame = STACK_PTR
          /\ calls'[1].sp_out = STACK_PTR + mem[0].size
          /\ \A c \in DOMAIN trace' :
                trace'[c].ev = "capture" =>
                    /\ trace'[c].name = TempReturnName(STACK_PTR + mem[0].size)
                    /\ trace'[c].name \in DOMAIN TopOf(SCOPE_STACK')
                    /\ mem'[TopOf(SCOPE_STACK')[trace'[c].name].addr].data = mem[0].data
                    /\ mem'[TopOf(SCOPE_STACK')[trace'[c].name].addr].size = mem[0].size]_vars

\* C20 witness: after n() left the four-byte value 70000 in the return
\* register, d() has been called and its caller captured 70000 as its result.
C20_Witness ==
    /\ last.stmt = ExprEval(Call("d", <<>>))
    /\ last.kind = "Ok"
    /\ Events("set_return") = {}
    /\ mem[0].data = 70000 /\ mem[0].size = 4
    /\ calls[1].sp_out = calls[1].frame + 4
    /\ \E c \in Events("capture") : mem[Top[trace[c].name].addr].data = 70000

====
